---- MODULE Spec2Model ----
(***************************************************************************)
(* Conformance-pack compliance processor, playbook-mapping loader and      *)
(* Well-Architected event processor, modelled as state machines.           *)
(*                                                                         *)
(* A Python str is a sequence of one-character strings, so that upper(),   *)
(* find(), replace() and + are computed character by character.            *)
(***************************************************************************)
EXTENDS Integers, Sequences, FiniteSets, TLC

VARIABLES
    ruleName,      \* get_prefix: the config_rule_name argument
    prefix,        \* get_prefix(ruleName), NotRun before the call
    prefix2,       \* get_prefix(prefix), NotRun before the call
    sheetRows,     \* loader main(): the sheet rows iterated so far
    items,         \* loader main(): items
    loaderKeys,    \* loader main(): keys
    table,         \* the playbook table (Items a scan returns)
    playbooks,     \* load_playbooks(): playbooks, NotLoaded before the call
    remediations,  \* get_details / process_remediations: remediations
    keys,          \* get_details / process_remediations: keys
    err,           \* the exception that left the running function, or NoError
    calls,         \* number of process_remediations calls made so far
    idx,           \* process_remediations: results of the page iterated so far
    ncFirst,       \* <<rule name, resource id, call>>: the call in which a
                   \* NON_COMPLIANT result was first iterated without error
    lastResult,    \* the result of the latest loop iteration, None before
    summary_response,  \* lambda_handler: summary_response
    scores,            \* lambda_handler: scores
    packIdx,           \* get_details: position in compliance_scores
    detail_response,   \* get_details: detail_response
    next_token,        \* get_details: next_token
    details,           \* get_details: details
    fetches,           \* get_conformance_pack_compliance_details calls made
    summaryPages,      \* list_conformance_pack_compliance_scores calls made
    detailTable,       \* the items put to table_detail, in order
    remediationTable,  \* the items put to table_remediation, in order
    summaryTable,      \* the items put to table_summary, in order
    event,             \* WA lambda_handler: the fields it reads from event
    lens_alias,        \* WA lambda_handler: lens_alias
    workload,          \* WA lambda_handler: workload, Unbound before assigned
    lens,              \* WA lambda_handler: lens, Unbound before assigned
    answers,           \* WA lambda_handler: answers, Unbound before assigned
    answer,            \* WA lambda_handler: answer
    risks,             \* WA lambda_handler: risks
    logged,            \* the logger.error records, in order
    answerPages,       \* list_answers calls made
    answerTable,       \* the items put to table, in order
    risksTable,        \* the items put to table_risks, in order
    pc             \* the position of the running program

vars == <<ruleName, prefix, prefix2, sheetRows, items, loaderKeys, table,
          playbooks, remediations, keys, err, calls, idx, ncFirst, lastResult,
          summary_response, scores, packIdx, detail_response, next_token,
          details, fetches, summaryPages, detailTable, remediationTable,
          summaryTable, event, lens_alias, workload, lens, answers, answer,
          risks, logged, answerPages, answerTable, risksTable, pc>>

prefixVars == <<ruleName, prefix, prefix2>>
loaderVars == <<sheetRows, items, loaderKeys, table>>
matchVars == <<remediations, keys, err, calls, idx, ncFirst, lastResult>>
sessionVars == <<summary_response, scores, packIdx, detail_response, next_token,
                 details, fetches, summaryPages, detailTable, remediationTable,
                 summaryTable>>
waVars == <<event, lens_alias, workload, lens, answers, answer, risks, logged,
            answerPages, answerTable, risksTable>>

----------------------------------------------------------------------------
(* Bounds *)

MaxPieces == 3       \* pieces concatenated into a rule name
MaxSheetRows == 3    \* sheet rows the loader iterates over
MaxCalls == 2        \* process_remediations calls with threaded state
MaxPageLen == 2      \* results in one page
MaxFetches == 3      \* detail pages fetched in one invocation
MaxSummaryPages == 2 \* summary pages fetched in one invocation
MaxAnswerPages == 2  \* list_answers pages fetched in one invocation

----------------------------------------------------------------------------
(* Python values *)

None == <<"<None>">>
NotRun == <<"<not run>">>
NotLoaded == <<"<not loaded>">>
NoError == "NoError"
Empty == <<>>

LowerChars == <<"a","b","c","d","e","f","g","h","i","j","k","l","m","n","o","p","q","r","s","t","u","v","w","x","y","z">>
UpperChars == <<"A","B","C","D","E","F","G","H","I","J","K","L","M","N","O","P","Q","R","S","T","U","V","W","X","Y","Z">>

\* str.upper() on one character
UpperChar(c) ==
    IF \E i \in 1..Len(LowerChars) : LowerChars[i] = c
    THEN UpperChars[CHOOSE i \in 1..Len(LowerChars) : LowerChars[i] = c]
    ELSE c

\* str.upper()
upper(s) == [i \in 1..Len(s) |-> UpperChar(s[i])]

\* str.find(sub): the lowest 0-based index where sub starts, or -1
find(s, sub) ==
    LET hits == {i \in 0..(Len(s) - Len(sub)) :
                    \A j \in 1..Len(sub) : s[i + j] = sub[j]}
    IN IF hits = {} THEN -1
       ELSE CHOOSE i \in hits : \A k \in hits : i <= k

\* str.replace(ch, '') for a one-character ch
RECURSIVE remove(_, _)
remove(s, ch) ==
    IF s = <<>> THEN <<>>
    ELSE IF Head(s) = ch THEN remove(Tail(s), ch)
    ELSE <<Head(s)>> \o remove(Tail(s), ch)

\* s[:i]
slice_to(s, i) == SubSeq(s, 1, i)

MARKER == <<"-","C","O","N","F","O","R","M","A","N","C","E","-","P","A","C","K","-">>

----------------------------------------------------------------------------
(* conformance-pack-compliance-processor: get_prefix *)

\* str.replace(ch, '', 1): only the first occurrence
RECURSIVE remove_first(_, _)
remove_first(s, ch) ==
    IF s = <<>> THEN <<>>
    ELSE IF Head(s) = ch THEN Tail(s)
    ELSE <<Head(s)>> \o remove_first(Tail(s), ch)

\* get_prefix with replace('-', '', 1) for replace('-', '')
get_prefix_first_hyphen(config_rule_name) ==
    LET u == upper(config_rule_name)
        i == find(u, MARKER)
        p == IF i # -1 THEN slice_to(u, i) ELSE u
    IN remove_first(p, "-")

get_prefix(config_rule_name) ==
    LET u == upper(config_rule_name)
        i == find(u, MARKER)
        p == IF i # -1 THEN slice_to(u, i) ELSE u
    IN remove(p, "-")

----------------------------------------------------------------------------
(* config-rule-playbook-mapping loader *)

INCONSISTENT_NAMES ==
    { << <<"e","c","2","-","i","n","s","t","a","n","c","e","-","m","a","n","a","g","e","d","-","b","y","-","s","y","s","t","e","m","s","-","m","a","n","a","g","e","r">>,
         <<"e","c","2","-","i","n","s","t","a","n","c","e","-","m","a","n","a","g","e","d","-","b","y","-","s","s","m">> >>,
      << <<"e","c","2","-","i","n","s","t","a","n","c","e","s","-","i","n","-","v","p","c">>,
         <<"i","n","s","t","a","n","c","e","s","-","i","n","-","v","p","c">> >>,
      << <<"r","e","s","t","r","i","c","t","e","d","-","c","o","m","m","o","n","-","p","o","r","t","s">>,
         <<"r","e","s","t","r","i","c","t","e","d","-","i","n","c","o","m","i","n","g","-","t","r","a","f","f","i","c">> >>,
      << <<"r","e","s","t","r","i","c","t","e","d","-","s","s","h">>,
         <<"i","n","c","o","m","i","n","g","-","s","s","h","-","d","i","s","a","b","l","e","d">> >>,
      << <<"i","a","m","-","p","a","s","s","w","o","r","d","-","p","o","l","i","c","y">>,
         <<"i","a","m","-","p","a","s","s","w","o","r","d","-","p","o","l","i","c","y","-","c","h","e","c","k">> >> }

DEFAULT_LOE_HOURS == <<"int:1">>
DEFAULT_LOE_SPRINTS == <<"int:1">>
DEFAULT_SKILL_LEVEL == <<"int:1">>
DEFAULT_RANK == <<"int:1">>

\* str(x): an int prints as its digits, a str is itself
str(x) == IF x = <<"int:1">> THEN <<"1">> ELSE x

build_normalized_name(id) ==
    LET id1 == IF \E e \in INCONSISTENT_NAMES : e[1] = id
               THEN (CHOOSE e \in INCONSISTENT_NAMES : e[1] = id)[2]
               ELSE id
        name == upper(str(id1))
    IN remove(remove(name, "-"), "_")

\* main(), one iteration of the loop over the sheet rows (lines 82-114):
\* the new <<items, keys>>
loader_row(row, its, ks) ==
    LET config_rule_id == row.AWSConfig
        playbook_id == row.PlaybookID
        name == build_normalized_name(config_rule_id)
        key == name \o <<"_">> \o playbook_id
        item == [ConfigRuleName |-> name,
                 PlaybookId |-> playbook_id,
                 LOEHours |-> IF row.LOEHours # Empty THEN str(row.LOEHours)
                              ELSE str(DEFAULT_LOE_HOURS),
                 LOESprints |-> IF row.LOESprints # Empty THEN str(row.LOESprints)
                                ELSE DEFAULT_LOE_SPRINTS,
                 SkillLevel |-> IF row.SkillLevel # Empty THEN str(row.SkillLevel)
                                ELSE DEFAULT_SKILL_LEVEL,
                 Rank |-> IF row.Rank # Empty THEN str(row.Rank)
                          ELSE DEFAULT_RANK]
    IN IF config_rule_id # Empty /\ playbook_id # Empty /\ key \notin ks
       THEN <<Append(its, item), ks \cup {key}>>
       ELSE <<its, ks>>

----------------------------------------------------------------------------
(* conformance-pack-compliance-processor: load_playbooks *)

RECURSIVE Concat(_)
Concat(seqs) == IF seqs = <<>> THEN <<>> ELSE Head(seqs) \o Concat(Tail(seqs))

\* the loop over data (lines 155-165)
RECURSIVE group_playbooks(_, _)
group_playbooks(data, pbs) ==
    IF data = <<>> THEN pbs
    ELSE LET datum == Head(data)
             name == datum.ConfigRuleName
             playbook == [PlaybookId |-> datum.PlaybookId,
                          LOEHours |-> datum.LOEHours,
                          LOESprints |-> datum.LOESprints,
                          SkillLevel |-> datum.SkillLevel,
                          Rank |-> datum.Rank]
             old == IF name \in DOMAIN pbs THEN pbs[name] ELSE <<>>
         IN group_playbooks(Tail(data),
                [k \in DOMAIN pbs \cup {name} |->
                    IF k = name THEN Append(old, playbook) ELSE pbs[k]])

\* scan_pages: the Items of the scan responses, in order
load_playbooks(scan_pages) == group_playbooks(Concat(scan_pages), <<>>)

----------------------------------------------------------------------------
(* conformance-pack-compliance-processor: process_remediations *)

\* An evaluation result. hasIdentifier / hasQualifier: whether
\* result['EvaluationResultIdentifier'] and its 'EvaluationResultQualifier'
\* are there; a qualifier field that is missing is None.
Result(type, hasId, hasQual, rule, rid) ==
    [ComplianceType |-> type, hasIdentifier |-> hasId, hasQualifier |-> hasQual,
     ConfigRuleName |-> rule, ResourceType |-> <<"AWS::EC2::Instance">>,
     ResourceId |-> rid]

NoResult == Result("<none>", FALSE, FALSE, None, None)

State(rems, ks, e) == [remediations |-> rems, keys |-> ks, err |-> e]

\* "if config_playbooks:" for config_playbooks = playbooks.get(prefix):
\* None (no such key) and an empty list are falsy
has_playbooks(pbs, pfx) == pfx \in DOMAIN pbs /\ Len(pbs[pfx]) > 0

remediation_of(result, pfx, playbook, key) ==
    [ConfigRuleNamePlaybookIdResourceId |-> key,
     ConfigRuleName |-> result.ConfigRuleName,
     ConfigRuleNamePrefix |-> pfx,
     PlaybookId |-> playbook.PlaybookId,
     ResourceType |-> result.ResourceType,
     ResourceId |-> result.ResourceId,
     LOEHours |-> playbook.LOEHours,
     LOESprints |-> playbook.LOESprints,
     SkillLevel |-> playbook.SkillLevel,
     Rank |-> playbook.Rank]

\* process_playbook without the "if key in keys" test
process_playbook_no_dedup(result, pfx, playbook, st) ==
    IF result.ResourceId = None
    THEN State(st.remediations, st.keys, "TypeError")
    ELSE LET key == pfx \o playbook.PlaybookId \o result.ResourceId
         IN State(Append(st.remediations,
                         remediation_of(result, pfx, playbook, key)),
                  st.keys \cup {key}, st.err)

\* one iteration of the loop over config_playbooks (lines 82-101)
process_playbook(result, pfx, playbook, st) ==
    IF result.ResourceId = None
    THEN State(st.remediations, st.keys, "TypeError")
    ELSE LET key == pfx \o playbook.PlaybookId \o result.ResourceId
         IN IF key \in st.keys THEN st
            ELSE State(Append(st.remediations,
                              remediation_of(result, pfx, playbook, key)),
                       st.keys \cup {key}, st.err)

\* the loop over config_playbooks leaving after its first iteration
process_playbooks_first_only(result, pfx, config_playbooks, st) ==
    IF config_playbooks = <<>> \/ st.err # NoError THEN st
    ELSE process_playbook(result, pfx, Head(config_playbooks), st)

\* the loop over config_playbooks; an exception ends it
RECURSIVE process_playbooks(_, _, _, _)
process_playbooks(result, pfx, config_playbooks, st) ==
    IF config_playbooks = <<>> \/ st.err # NoError THEN st
    ELSE process_playbooks(result, pfx, Tail(config_playbooks),
             process_playbook(result, pfx, Head(config_playbooks), st))

\* process_result testing ComplianceType != 'COMPLIANT'
process_result_not_compliant(result, pbs, st) ==
    IF result.ComplianceType # "COMPLIANT"
    THEN IF ~result.hasIdentifier \/ ~result.hasQualifier
            \/ result.ConfigRuleName = None
         THEN State(st.remediations, st.keys, "AttributeError")
         ELSE LET pfx == get_prefix(result.ConfigRuleName)
              IN IF has_playbooks(pbs, pfx)
                 THEN process_playbooks(result, pfx, pbs[pfx], st)
                 ELSE st
    ELSE st

\* process_result guarding every access with "if qualifier:"
process_result_skip_malformed(result, pbs, st) ==
    IF result.ComplianceType = "NON_COMPLIANT"
    THEN IF ~result.hasIdentifier \/ ~result.hasQualifier
            \/ result.ConfigRuleName = None
         THEN st
         ELSE LET pfx == get_prefix(result.ConfigRuleName)
              IN IF has_playbooks(pbs, pfx)
                 THEN process_playbooks(result, pfx, pbs[pfx], st)
                 ELSE st
    ELSE st

\* one iteration of the loop over results (lines 73-101)
process_result(result, pbs, st) ==
    IF result.ComplianceType = "NON_COMPLIANT"
    THEN IF ~result.hasIdentifier \/ ~result.hasQualifier
            \/ result.ConfigRuleName = None
         THEN State(st.remediations, st.keys, "AttributeError")
         ELSE LET pfx == get_prefix(result.ConfigRuleName)
              IN IF has_playbooks(pbs, pfx)
                 THEN process_playbooks(result, pfx, pbs[pfx], st)
                 ELSE st
    ELSE st

\* the loop over results (lines 72-101); an exception ends it, and what
\* was appended to the caller's list and dict before it stays
RECURSIVE process_results(_, _, _)
process_results(results, pbs, st) ==
    IF results = <<>> \/ st.err # NoError THEN st
    ELSE process_results(Tail(results), pbs, process_result(Head(results), pbs, st))

process_remediations(detail_resp, pbs, rems, ks) ==
    process_results(detail_resp.ConformancePackRuleEvaluationResults, pbs,
                    State(rems, ks, NoError))

----------------------------------------------------------------------------
(* Inputs of the normalisation and catalog specifications *)

Pieces == { <<"a">>, <<"B">>, <<"-">>, <<"_">>, <<"1">>,
            <<"-","c","o","n","f","o","r","m","a","n","c","e","-","p","a","c","k","-">>,
            MARKER }

RECURSIVE NamesOf(_)
NamesOf(n) ==
    IF n = 0 THEN { <<>> }
    ELSE LET shorter == NamesOf(n - 1)
         IN shorter \cup { s \o p : s \in shorter, p \in Pieces }

RuleNames == NamesOf(MaxPieces)

SheetRuleIds == { <<"r","e","s","t","r","i","c","t","e","d","-","s","s","h">>,
                  <<"m","y","_","r","u","l","e">>,
                  <<"a","-","b">> }
SheetPlaybookIds == { <<"B">>, <<"B","C">> }
SheetCells == { Empty, <<"2">> }

Row(id, pid, cell) ==
    [AWSConfig |-> id, PlaybookID |-> pid, LOEHours |-> cell,
     LOESprints |-> cell, SkillLevel |-> cell, Rank |-> cell]

SheetRows ==
    { Row(id, pid, cell) : id \in SheetRuleIds, pid \in SheetPlaybookIds,
                           cell \in SheetCells }
    \cup { Row(Empty, <<"B">>, Empty), Row(<<"a","-","b">>, Empty, <<"2">>) }

----------------------------------------------------------------------------
(* conformance-pack-compliance-processor: process_details, process_scores *)

\* a token that is None is falsy
HasToken(response) == response.NextToken # None

DetailResponse(results, token) ==
    [falsy |-> FALSE, ConformancePackRuleEvaluationResults |-> results,
     NextToken |-> token]
\* an empty response, {}
FalsyResponse ==
    [falsy |-> TRUE, ConformancePackRuleEvaluationResults |-> <<>>,
     NextToken |-> None]

SummaryResponse(packs, token) ==
    [falsy |-> FALSE, ConformancePackComplianceScores |-> packs,
     NextToken |-> token]
FalsySummary ==
    [falsy |-> TRUE, ConformancePackComplianceScores |-> <<>>,
     NextToken |-> None]

\* one iteration of the loop over results (lines 39-49): the evaluation,
\* or the exception
evaluation_of(pack, result) ==
    IF ~result.hasIdentifier \/ ~result.hasQualifier
    THEN [err |-> "AttributeError"]
    ELSE IF result.ConfigRuleName = None \/ result.ResourceId = None
    THEN [err |-> "TypeError"]
    ELSE [err |-> NoError,
          ConformancePackName |-> pack,
          ComplianceType |-> result.ComplianceType,
          ConfigRuleNameResourceId |-> result.ConfigRuleName \o result.ResourceId,
          ConfigRuleName |-> result.ConfigRuleName,
          ResourceType |-> result.ResourceType,
          ResourceId |-> result.ResourceId]

\* process_details: [err, evaluations]
RECURSIVE process_details_from(_, _, _)
process_details_from(pack, results, evaluations) ==
    IF results = <<>> THEN [err |-> NoError, evaluations |-> evaluations]
    ELSE LET e == evaluation_of(pack, Head(results))
         IN IF e.err # NoError THEN [err |-> e.err, evaluations |-> <<>>]
            ELSE process_details_from(pack, Tail(results), Append(evaluations, e))

process_details(pack, detail_resp) ==
    process_details_from(pack, detail_resp.ConformancePackRuleEvaluationResults, <<>>)

\* process_scores: Decimal(score), Decimal(-1.0) when that raises
process_scores(summary_resp) ==
    [i \in 1..Len(summary_resp.ConformancePackComplianceScores) |->
        LET cs == summary_resp.ConformancePackComplianceScores[i]
        IN [ConformancePackName |-> cs.ConformancePackName,
            Score |-> IF cs.Score = None THEN <<"-1">> ELSE cs.Score]]

----------------------------------------------------------------------------
(* well-architected-event-processor *)

Unbound == "unbound"
Bound == "bound"

Event(hasParams, name, qid, wid, alias) ==
    [hasRequestParameters |-> hasParams, eventName |-> name,
     QuestionId |-> qid, WorkloadId |-> wid, LensAlias |-> alias]
NoEvent == Event(FALSE, "<none>", None, None, None)

Answers(summaries, token) ==
    [bound |-> TRUE, AnswerSummaries |-> summaries, NextToken |-> token]
UnboundAnswers == [bound |-> FALSE, AnswerSummaries |-> <<>>, NextToken |-> None]

NoAnswer == [WorkloadId |-> None, LensAlias |-> None, AnswerSummaries |-> <<>>]

\* urllib.parse.unquote for the escapes %3A and %2F
RECURSIVE unquote(_)
unquote(s) ==
    IF s = <<>> THEN <<>>
    ELSE IF Len(s) >= 3 /\ SubSeq(s, 1, 3) = <<"%", "3", "A">>
    THEN <<":">> \o unquote(SubSeq(s, 4, Len(s)))
    ELSE IF Len(s) >= 3 /\ SubSeq(s, 1, 3) = <<"%", "2", "F">>
    THEN <<"/">> \o unquote(SubSeq(s, 4, Len(s)))
    ELSE <<Head(s)>> \o unquote(Tail(s))

\* the exceptions the first two except clauses catch (lines 40-43); the
\* clauses after them name attributes botocore.exceptions may not have
Caught(kind) == kind \in {"ParamValidationError", "ClientError"}

\* what leaves the try statement for an exception no clause catches
Uncaught(kind) == {kind, "AttributeError"}

\* lines 60-71 and 82-93: the risks of one page of answers
risks_of(wid, alias, summaries) ==
    [i \in 1..Len(summaries) |->
        [WorkloadIdLensAlias |-> wid \o alias,
         QuestionId |-> summaries[i].QuestionId,
         WorkloadId |-> wid,
         WorkloadName |-> <<"w","l">>,
         LensAlias |-> alias,
         LensName |-> <<"l","n">>,
         QuestionTitle |-> summaries[i].QuestionTitle,
         Risk |-> summaries[i].Risk]]

SessionIdle ==
    /\ summary_response = FalsySummary /\ scores = <<>> /\ packIdx = 0
    /\ detail_response = FalsyResponse /\ next_token = None /\ details = <<>>
    /\ fetches = 0 /\ summaryPages = 0 /\ detailTable = <<>>
    /\ remediationTable = <<>> /\ summaryTable = <<>>

WaIdle ==
    /\ lens_alias = None /\ workload = Unbound /\ lens = Unbound
    /\ answers = UnboundAnswers /\ answer = NoAnswer /\ risks = <<>>
    /\ logged = <<>> /\ answerPages = 0 /\ answerTable = <<>>
    /\ risksTable = <<>>

----------------------------------------------------------------------------
(* Specification SpecPrefix: get_prefix applied and re-applied *)

InitPrefix ==
    /\ ruleName \in RuleNames /\ prefix = NotRun /\ prefix2 = NotRun
    /\ sheetRows = <<>> /\ items = <<>> /\ loaderKeys = {} /\ table = <<>>
    /\ playbooks = NotLoaded
    /\ remediations = <<>> /\ keys = {} /\ err = NoError /\ calls = 0
    /\ idx = 0 /\ ncFirst = {} /\ lastResult = NoResult
    /\ SessionIdle
    /\ event = NoEvent /\ WaIdle
    /\ pc = "prefix"

GetPrefix ==
    /\ pc = "prefix" /\ prefix = NotRun
    /\ prefix' = get_prefix(ruleName)
    /\ UNCHANGED <<ruleName, prefix2, loaderVars, playbooks, matchVars, sessionVars, waVars, pc>>

GetPrefixAgain ==
    /\ pc = "prefix" /\ prefix # NotRun /\ prefix2 = NotRun
    /\ prefix2' = get_prefix(prefix)
    /\ UNCHANGED <<ruleName, prefix, loaderVars, playbooks, matchVars, sessionVars, waVars, pc>>

NextPrefix == GetPrefix \/ GetPrefixAgain

SpecPrefix == InitPrefix /\ [][NextPrefix]_vars

----------------------------------------------------------------------------
(* Specification SpecCatalog: the loader writes the table, the processor   *)
(* loads the catalog from it                                               *)

InitCatalog ==
    /\ ruleName = Empty /\ prefix = NotRun /\ prefix2 = NotRun
    /\ sheetRows = <<>> /\ items = <<>> /\ loaderKeys = {} /\ table = <<>>
    /\ playbooks = NotLoaded
    /\ remediations = <<>> /\ keys = {} /\ err = NoError /\ calls = 0
    /\ idx = 0 /\ ncFirst = {} /\ lastResult = NoResult
    /\ SessionIdle
    /\ event = NoEvent /\ WaIdle
    /\ pc = "rows"

\* main(): one iteration of the loop over the sheet
LoaderRow ==
    /\ pc = "rows" /\ Len(sheetRows) < MaxSheetRows
    /\ \E row \in SheetRows :
         LET r == loader_row(row, items, loaderKeys)
         IN /\ sheetRows' = Append(sheetRows, row)
            /\ items' = r[1]
            /\ loaderKeys' = r[2]
    /\ UNCHANGED <<prefixVars, table, playbooks, matchVars, sessionVars, waVars, pc>>

\* main(): the batch write after the loop (lines 116-119)
LoaderWrite ==
    /\ pc = "rows"
    /\ table' = IF Len(items) > 0 THEN table \o items ELSE table
    /\ pc' = "written"
    /\ UNCHANGED <<prefixVars, sheetRows, items, loaderKeys, playbooks, matchVars,
                   sessionVars, waVars>>

\* lambda_handler line 186: the scan answers in one or two pages
LoadPlaybooks ==
    /\ pc = "written"
    /\ \E k \in 0..Len(table) :
         playbooks' = load_playbooks(
             IF k = Len(table) THEN <<table>>
             ELSE <<SubSeq(table, 1, k), SubSeq(table, k + 1, Len(table))>>)
    /\ pc' = "loaded"
    /\ UNCHANGED <<prefixVars, loaderVars, matchVars, sessionVars, waVars>>

NextCatalog == LoaderRow \/ LoaderWrite \/ LoadPlaybooks

SpecCatalog == InitCatalog /\ [][NextCatalog]_vars

----------------------------------------------------------------------------
(* Specification SpecMatch: process_remediations called page after page    *)
(* with the returned remediations and keys passed to the next call         *)

RuleA == <<"a">>
RuleAPack == <<"a","-","c","o","n","f","o","r","m","a","n","c","e","-","p","a","c","k","-","x">>
ResCD == <<"C","D">>
ResD == <<"D">>

Playbook(pid, hours, sprints, skill, rank) ==
    [PlaybookId |-> pid, LOEHours |-> hours, LOESprints |-> sprints,
     SkillLevel |-> skill, Rank |-> rank]

PbB == Playbook(<<"B">>, <<"2">>, <<"1">>, <<"2">>, <<"1">>)
PbBC == Playbook(<<"B","C">>, <<"4">>, <<"2">>, <<"3">>, <<"2">>)
PbC == Playbook(<<"C">>, <<"6">>, <<"3">>, <<"1">>, <<"3">>)
PbBagain == Playbook(<<"B">>, <<"8">>, <<"4">>, <<"1">>, <<"4">>)

TableItem(name, pb) ==
    [ConfigRuleName |-> name, PlaybookId |-> pb.PlaybookId,
     LOEHours |-> pb.LOEHours, LOESprints |-> pb.LOESprints,
     SkillLevel |-> pb.SkillLevel, Rank |-> pb.Rank]

\* catalogs load_playbooks builds, and two a caller may hand over: a prefix
\* mapped to an empty list, and one whose list repeats a PlaybookId
Catalogs ==
    { load_playbooks(<<t>>) :
        t \in { <<>>,
                << TableItem(<<"A">>, PbB) >>,
                << TableItem(<<"A">>, PbB), TableItem(<<"A">>, PbBC) >>,
                << TableItem(<<"A">>, PbB), TableItem(<<"A">>, PbBC),
                   TableItem(<<"A">>, PbC) >> } }
    \cup { [k \in { <<"A">> } |-> <<>>],
           [k \in { <<"A">> } |-> << PbB, PbBagain >>] }

Results ==
    { Result("NON_COMPLIANT", TRUE, TRUE, rule, rid) :
        rule \in {RuleA, RuleAPack}, rid \in {ResCD, ResD} }
    \cup { Result("COMPLIANT", TRUE, TRUE, RuleA, ResD),
           Result("NOT_APPLICABLE", TRUE, TRUE, RuleA, ResCD),
           Result("INSUFFICIENT_DATA", TRUE, TRUE, RuleAPack, ResD),
           Result("NON_COMPLIANT", FALSE, FALSE, None, None),
           Result("NON_COMPLIANT", TRUE, FALSE, None, None),
           Result("NON_COMPLIANT", TRUE, TRUE, None, ResD),
           Result("NON_COMPLIANT", TRUE, TRUE, RuleA, None),
           Result("COMPLIANT", TRUE, FALSE, None, None) }

InitMatch ==
    /\ ruleName = Empty /\ prefix = NotRun /\ prefix2 = NotRun
    /\ sheetRows = <<>> /\ items = <<>> /\ loaderKeys = {} /\ table = <<>>
    /\ playbooks \in Catalogs
    /\ remediations = <<>> /\ keys = {} /\ err = NoError /\ calls = 0
    /\ idx = 0 /\ ncFirst = {} /\ lastResult = NoResult
    /\ SessionIdle
    /\ event = NoEvent /\ WaIdle
    /\ pc = "caller"

\* the caller calls process_remediations with its remediations and keys
CallProcessRemediations ==
    /\ pc = "caller" /\ calls < MaxCalls
    /\ calls' = calls + 1
    /\ idx' = 0
    /\ pc' = "results"
    /\ UNCHANGED <<prefixVars, loaderVars, playbooks, remediations, keys, err,
                   ncFirst, lastResult, sessionVars, waVars>>

\* one iteration of the loop over the page's results
ProcessResult ==
    /\ pc = "results" /\ idx < MaxPageLen
    /\ \E result \in Results :
         LET st == process_result(result, playbooks,
                                  State(remediations, keys, NoError))
         IN /\ remediations' = st.remediations
            /\ keys' = st.keys
            /\ err' = st.err
            /\ lastResult' = result
            /\ pc' = IF st.err = NoError THEN "results" ELSE "raised"
            /\ ncFirst' =
                 IF /\ st.err = NoError
                    /\ result.ComplianceType = "NON_COMPLIANT"
                    /\ ~\E f \in ncFirst : f[1] = result.ConfigRuleName
                                           /\ f[2] = result.ResourceId
                 THEN ncFirst \cup
                      { <<result.ConfigRuleName, result.ResourceId, calls>> }
                 ELSE ncFirst
    /\ idx' = idx + 1
    /\ UNCHANGED <<prefixVars, loaderVars, playbooks, calls, sessionVars, waVars>>

\* the page is exhausted: return remediations, keys
ReturnRemediations ==
    /\ pc = "results"
    /\ pc' = "caller"
    /\ UNCHANGED <<prefixVars, loaderVars, playbooks, matchVars, sessionVars, waVars>>

NextMatch == CallProcessRemediations \/ ProcessResult \/ ReturnRemediations

SpecMatch == InitMatch /\ [][NextMatch]_vars

----------------------------------------------------------------------------
(* Specification SpecSession: one invocation of the compliance processor's *)
(* lambda_handler                                                          *)

PackP1 == [ConformancePackName |-> <<"p","1">>, Score |-> <<"8","7">>]
PackP2 == [ConformancePackName |-> <<"p","2">>, Score |-> None]

SummaryToken == <<"s">>
DetailToken == <<"d">>

SummaryResponses ==
    { SummaryResponse(packs, token) :
        packs \in { <<>>, <<PackP1>>, <<PackP2>>, <<PackP1, PackP2>> },
        token \in { None, SummaryToken } }
    \cup { FalsySummary }

SessionResultLists ==
    { <<>>,
      << Result("NON_COMPLIANT", TRUE, TRUE, RuleAPack, ResD) >>,
      << Result("NON_COMPLIANT", TRUE, TRUE, RuleA, ResCD),
         Result("NON_COMPLIANT", TRUE, TRUE, RuleAPack, ResD) >>,
      << Result("COMPLIANT", TRUE, TRUE, RuleA, ResD) >>,
      << Result("COMPLIANT", TRUE, TRUE, RuleA, None) >> }

DetailResponses ==
    { DetailResponse(results, token) :
        results \in SessionResultLists, token \in { None, DetailToken } }
    \cup { FalsyResponse }

SessionTables ==
    { << TableItem(<<"A">>, PbB) >>,
      << TableItem(<<"A">>, PbB), TableItem(<<"A">>, PbBC) >> }

InitSession ==
    /\ ruleName = Empty /\ prefix = NotRun /\ prefix2 = NotRun
    /\ sheetRows = <<>> /\ items = <<>> /\ loaderKeys = {}
    /\ table \in SessionTables
    /\ playbooks = NotLoaded
    /\ remediations = <<>> /\ keys = {} /\ err = NoError /\ calls = 0
    /\ idx = 0 /\ ncFirst = {} /\ lastResult = NoResult
    /\ SessionIdle
    /\ event = NoEvent /\ WaIdle
    /\ pc = "handler"

\* lambda_handler line 186
SessionLoadPlaybooks ==
    /\ pc = "handler"
    /\ playbooks' = load_playbooks(<<table>>)
    /\ pc' = "list_scores"
    /\ UNCHANGED <<prefixVars, loaderVars, matchVars, sessionVars, waVars>>

\* get_details lines 111-114: the locals of a new get_details call
EnterGetDetails ==
    /\ details' = <<>>
    /\ remediations' = <<>>
    /\ keys' = {}
    /\ packIdx' = 1
    /\ pc' = "pack"

\* lambda_handler lines 187-190: the first summary page
ListScores ==
    /\ pc = "list_scores"
    /\ summaryPages' = summaryPages + 1
    /\ \E resp \in SummaryResponses :
         /\ summary_response' = resp
         /\ IF resp.falsy
            THEN /\ pc' = "write_scores"
                 /\ UNCHANGED <<details, remediations, keys, packIdx>>
            ELSE EnterGetDetails
    /\ UNCHANGED <<prefixVars, loaderVars, playbooks, err, calls, idx, ncFirst,
                   lastResult, scores, detail_response, next_token, fetches,
                   detailTable, remediationTable, summaryTable,
                   waVars>>

\* lines 122-125 and 131-134: a truthy detail response is processed and
\* its NextToken taken
TakeDetailResponse(resp) ==
    LET pack == summary_response.ConformancePackComplianceScores[packIdx].ConformancePackName
        d == process_details(pack, resp)
        r == process_remediations(resp, playbooks, remediations, keys)
    IN IF d.err # NoError
       THEN /\ err' = d.err
            /\ pc' = "raised"
            /\ UNCHANGED <<details, remediations, keys, next_token, packIdx, calls>>
       ELSE /\ details' = details \o d.evaluations
            /\ remediations' = r.remediations
            /\ keys' = r.keys
            /\ calls' = calls + 1
            /\ IF r.err # NoError
               THEN /\ err' = r.err
                    /\ pc' = "raised"
                    /\ UNCHANGED <<next_token, packIdx>>
               ELSE /\ next_token' = resp.NextToken
                    /\ err' = err
                    /\ IF HasToken(resp)
                       THEN pc' = "page" /\ packIdx' = packIdx
                       ELSE pc' = "pack" /\ packIdx' = packIdx + 1

\* get_details lines 115-125: the first page of the next conformance pack
FetchDetails ==
    /\ pc = "pack"
    /\ packIdx <= Len(summary_response.ConformancePackComplianceScores)
    /\ fetches < MaxFetches
    /\ fetches' = fetches + 1
    /\ \E resp \in DetailResponses :
         /\ detail_response' = resp
         /\ IF resp.falsy
            THEN /\ packIdx' = packIdx + 1
                 /\ UNCHANGED <<details, remediations, keys, next_token, err,
                                pc, calls>>
            ELSE TakeDetailResponse(resp)
    /\ UNCHANGED <<prefixVars, loaderVars, playbooks, idx, ncFirst, lastResult,
                   summary_response, scores, summaryPages, detailTable,
                   remediationTable, summaryTable,
                   waVars>>

\* get_details lines 126-134: one iteration of "while next_token"
FetchDetailsNext ==
    /\ pc = "page"
    /\ fetches < MaxFetches
    /\ fetches' = fetches + 1
    /\ \E resp \in DetailResponses :
         /\ detail_response' = resp
         /\ IF resp.falsy
            THEN UNCHANGED <<details, remediations, keys, next_token, err, pc,
                             packIdx, calls>>
            ELSE TakeDetailResponse(resp)
    /\ UNCHANGED <<prefixVars, loaderVars, playbooks, idx, ncFirst, lastResult,
                   summary_response, scores, summaryPages, detailTable,
                   remediationTable, summaryTable,
                   waVars>>

\* get_details lines 135-143, then lambda_handler lines 191-193 or 199-200
ReturnFromGetDetails ==
    /\ pc = "pack"
    /\ packIdx > Len(summary_response.ConformancePackComplianceScores)
    /\ detailTable' = detailTable \o details
    /\ remediationTable' = remediationTable \o remediations
    /\ scores' = scores \o process_scores(summary_response)
    /\ pc' = IF HasToken(summary_response) THEN "summary_loop" ELSE "write_scores"
    /\ UNCHANGED <<prefixVars, loaderVars, playbooks, matchVars, summary_response,
                   packIdx, detail_response, next_token, details, fetches,
                   summaryPages, summaryTable,
                   waVars>>

\* lambda_handler lines 193-198: the next summary page; an empty response
\* has no ConformancePackComplianceScores to iterate over
ListScoresNext ==
    /\ pc = "summary_loop"
    /\ summaryPages < MaxSummaryPages
    /\ summaryPages' = summaryPages + 1
    /\ \E resp \in SummaryResponses :
         /\ summary_response' = resp
         /\ IF resp.falsy
            THEN /\ err' = "TypeError"
                 /\ pc' = "raised"
                 /\ UNCHANGED <<details, remediations, keys, packIdx>>
            ELSE EnterGetDetails /\ err' = err
    /\ UNCHANGED <<prefixVars, loaderVars, playbooks, calls, idx, ncFirst,
                   lastResult, scores, detail_response, next_token, fetches,
                   detailTable, remediationTable, summaryTable,
                   waVars>>

\* lambda_handler lines 201-205
WriteScores ==
    /\ pc = "write_scores"
    /\ summaryTable' = summaryTable \o scores
    /\ pc' = "done"
    /\ UNCHANGED <<prefixVars, loaderVars, playbooks, matchVars, summary_response,
                   scores, packIdx, detail_response, next_token, details, fetches,
                   summaryPages, detailTable, remediationTable,
                   waVars>>

NextSession ==
    \/ SessionLoadPlaybooks \/ ListScores \/ FetchDetails \/ FetchDetailsNext
    \/ ReturnFromGetDetails \/ ListScoresNext \/ WriteScores

SpecSession == InitSession /\ [][NextSession]_vars

----------------------------------------------------------------------------
(* Specification SpecWA: one invocation of the Well-Architected event      *)
(* processor's lambda_handler                                              *)

Present == { None, <<"x">> }
LensAliases == { None, <<"w","a">>, <<"a","%","3","A","l">> }

Events ==
    { Event(hasParams, name, qid, wid, alias) :
        hasParams \in BOOLEAN, name \in {"UpdateAnswer", "CreateWorkload"},
        qid \in Present, wid \in Present, alias \in LensAliases }

FetchOutcomes == {"ok", "ParamValidationError", "ClientError",
                  "EndpointConnectionError"}

Summary(q, risk) == [QuestionId |-> q, QuestionTitle |-> <<"t">> \o q, Risk |-> risk]
SummaryLists ==
    { <<>>, << Summary(<<"q","1">>, <<"H","I","G","H">>) >>,
      << Summary(<<"q","1">>, <<"H","I","G","H">>),
         Summary(<<"q","2">>, <<"N","O","N","E">>) >> }
AnswerToken == <<"n">>
AnswersResponses ==
    { Answers(summaries, token) :
        summaries \in SummaryLists, token \in { None, AnswerToken } }

InitWA ==
    /\ ruleName = Empty /\ prefix = NotRun /\ prefix2 = NotRun
    /\ sheetRows = <<>> /\ items = <<>> /\ loaderKeys = {} /\ table = <<>>
    /\ playbooks = NotLoaded
    /\ remediations = <<>> /\ keys = {} /\ err = NoError /\ calls = 0
    /\ idx = 0 /\ ncFirst = {} /\ lastResult = NoResult
    /\ SessionIdle
    /\ event \in Events /\ WaIdle
    /\ pc = "wa_handler"

notWa == <<prefixVars, loaderVars, playbooks, matchVars, sessionVars>>

\* lines 20-33: the event is an UpdateAnswer with its three parameters,
\* or the handler returns
WaReadEvent ==
    /\ pc = "wa_handler"
    /\ IF /\ event.hasRequestParameters /\ event.eventName = "UpdateAnswer"
          /\ event.QuestionId # None /\ event.WorkloadId # None
          /\ event.LensAlias # None
       THEN /\ lens_alias' = unquote(event.LensAlias)
            /\ pc' = "wa_get_workload"
       ELSE /\ lens_alias' = lens_alias
            /\ pc' = "wa_done"
    /\ UNCHANGED <<notWa, event, workload, lens, answers, answer, risks, logged,
                   answerPages, answerTable, risksTable>>

\* an exception raised inside the try statement (lines 34-53)
WaRaiseInTry(kind) ==
    IF Caught(kind)
    THEN /\ logged' = Append(logged, kind)
         /\ pc' = "wa_build"
         /\ err' = err
    ELSE /\ logged' = logged
         /\ pc' = "raised"
         /\ err' \in Uncaught(kind)

\* line 36
WaGetWorkload ==
    /\ pc = "wa_get_workload"
    /\ \E outcome \in FetchOutcomes :
         IF outcome = "ok"
         THEN /\ workload' = Bound /\ pc' = "wa_get_lens"
              /\ UNCHANGED <<logged, err>>
         ELSE WaRaiseInTry(outcome) /\ workload' = workload
    /\ UNCHANGED <<prefixVars, loaderVars, playbooks, remediations, keys, calls,
                   idx, ncFirst, lastResult, sessionVars, event, lens_alias,
                   lens, answers, answer, risks, answerPages, answerTable,
                   risksTable>>

\* line 37
WaGetLens ==
    /\ pc = "wa_get_lens"
    /\ \E outcome \in FetchOutcomes :
         IF outcome = "ok"
         THEN /\ lens' = Bound /\ pc' = "wa_list_answers"
              /\ UNCHANGED <<logged, err>>
         ELSE WaRaiseInTry(outcome) /\ lens' = lens
    /\ UNCHANGED <<prefixVars, loaderVars, playbooks, remediations, keys, calls,
                   idx, ncFirst, lastResult, sessionVars, event, lens_alias,
                   workload, answers, answer, risks, answerPages, answerTable,
                   risksTable>>

\* lines 38-39
WaListAnswers ==
    /\ pc = "wa_list_answers"
    /\ answerPages' = answerPages + 1
    /\ \/ \E resp \in AnswersResponses :
            /\ answers' = resp /\ pc' = "wa_build"
            /\ UNCHANGED <<logged, err>>
       \/ \E outcome \in FetchOutcomes \ {"ok"} :
            WaRaiseInTry(outcome) /\ answers' = answers
    /\ UNCHANGED <<prefixVars, loaderVars, playbooks, remediations, keys, calls,
                   idx, ncFirst, lastResult, sessionVars, event, lens_alias,
                   workload, lens, answer, risks, answerTable, risksTable>>

\* lines 55-74: reading answers before it was assigned raises
\* UnboundLocalError; once answers is assigned, so are workload and lens
WaBuild ==
    /\ pc = "wa_build"
    /\ IF ~answers.bound
       THEN /\ answer' = [WorkloadId |-> event.WorkloadId,
                          LensAlias |-> lens_alias,
                          AnswerSummaries |-> <<>>]
            /\ err' = "UnboundLocalError"
            /\ pc' = "raised"
            /\ risks' = risks
       ELSE /\ answer' = [WorkloadId |-> event.WorkloadId,
                          LensAlias |-> lens_alias,
                          AnswerSummaries |-> <<answers.AnswerSummaries>>]
            /\ risks' = risks \o risks_of(event.WorkloadId, lens_alias,
                                           answers.AnswerSummaries)
            /\ err' = err
            /\ pc' = IF answers.NextToken # None THEN "wa_page" ELSE "wa_write"
    /\ UNCHANGED <<prefixVars, loaderVars, playbooks, remediations, keys, calls,
                   idx, ncFirst, lastResult, sessionVars, event, lens_alias,
                   workload, lens, answers, logged, answerPages, answerTable,
                   risksTable>>

\* lines 75-95: one iteration of "while next_token"; the call is outside
\* the try statement
WaNextAnswers ==
    /\ pc = "wa_page"
    /\ answerPages < MaxAnswerPages
    /\ answerPages' = answerPages + 1
    /\ \/ \E resp \in AnswersResponses :
            /\ answers' = resp
            /\ answer' = [answer EXCEPT !.AnswerSummaries =
                              Append(@, resp.AnswerSummaries)]
            /\ risks' = risks \o risks_of(event.WorkloadId, lens_alias,
                                           resp.AnswerSummaries)
            /\ pc' = IF resp.NextToken # None THEN "wa_page" ELSE "wa_write"
            /\ err' = err
       \/ \E outcome \in FetchOutcomes \ {"ok"} :
            /\ err' = outcome
            /\ pc' = "raised"
            /\ UNCHANGED <<answers, answer, risks>>
    /\ UNCHANGED <<prefixVars, loaderVars, playbooks, remediations, keys, calls,
                   idx, ncFirst, lastResult, sessionVars, event, lens_alias,
                   workload, lens, logged, answerTable, risksTable>>

\* lines 97-104
WaWrite ==
    /\ pc = "wa_write"
    /\ answerTable' = Append(answerTable, answer)
    /\ risksTable' = risksTable \o risks
    /\ pc' = "wa_done"
    /\ UNCHANGED <<notWa, event, lens_alias, workload, lens, answers, answer,
                   risks, logged, answerPages>>

NextWA ==
    \/ WaReadEvent \/ WaGetWorkload \/ WaGetLens \/ WaListAnswers
    \/ WaBuild \/ WaNextAnswers \/ WaWrite

SpecWA == InitWA /\ [][NextWA]_vars

----------------------------------------------------------------------------
(* Properties *)

HasHyphen(s) == \E i \in 1..Len(s) : s[i] = "-"
MarkerAbsent(x) == find(upper(x), MARKER) = -1

\* C7: for a rule name whose uppercased form does not contain the marker,
\* get_prefix(get_prefix(x)) = get_prefix(x), and get_prefix(x) is
\* uppercase and has no hyphen.
C7_PrefixIdempotent ==
    (MarkerAbsent(ruleName) /\ prefix # NotRun) =>
        /\ upper(prefix) = prefix
        /\ ~HasHyphen(prefix)
        /\ prefix2 # NotRun => prefix2 = prefix

\* a name with lower case and two hyphens, normalised twice
C7_Witness ==
    /\ ruleName = <<"-", "a", "-">>
    /\ prefix = <<"A">>
    /\ prefix2 # NotRun

IngestedRows ==
    { i \in 1..Len(sheetRows) :
        sheetRows[i].AWSConfig # Empty /\ sheetRows[i].PlaybookID # Empty }

\* C5: once the catalog is loaded, the playbooks of every ingested rule
\* name r are stored under the key get_prefix(r).
C5_CatalogKeyIsPrefix ==
    pc = "loaded" =>
        \A i \in IngestedRows :
            LET r == sheetRows[i].AWSConfig
            IN /\ get_prefix(r) \in DOMAIN playbooks
               /\ \E j \in 1..Len(playbooks[get_prefix(r)]) :
                     playbooks[get_prefix(r)][j].PlaybookId = sheetRows[i].PlaybookID

Count(key) ==
    Cardinality({ i \in 1..Len(remediations) :
                    remediations[i].ConfigRuleNamePlaybookIdResourceId = key })

Entries(rule) ==
    IF has_playbooks(playbooks, get_prefix(rule))
    THEN playbooks[get_prefix(rule)] ELSE <<>>

KeyOf(rule, pid, rid) == get_prefix(rule) \o pid \o rid

Malformed(r) ==
    \/ ~r.hasIdentifier \/ ~r.hasQualifier
    \/ r.ConfigRuleName = None \/ r.ResourceId = None

\* C2: with remediations and keys threaded through the calls, every key
\* yielded by a NON_COMPLIANT result iterated so far, in whichever pages
\* and however often, has exactly one work item, and no two work items
\* share a key.
C2_OneWorkItemPerKey ==
    /\ \A f \in ncFirst :
         \A j \in 1..Len(Entries(f[1])) :
            Count(KeyOf(f[1], Entries(f[1])[j].PlaybookId, f[2])) = 1
    /\ \A i, j \in 1..Len(remediations) :
         i # j => remediations[i].ConfigRuleNamePlaybookIdResourceId
                  # remediations[j].ConfigRuleNamePlaybookIdResourceId

\* the second call iterates a result the first call has already matched
C2_Witness ==
    /\ calls = 2 /\ idx >= 1 /\ err = NoError
    /\ lastResult.ComplianceType = "NON_COMPLIANT"
    /\ ~Malformed(lastResult)
    /\ <<lastResult.ConfigRuleName, lastResult.ResourceId, 1>> \in ncFirst
    /\ Len(Entries(lastResult.ConfigRuleName)) > 0

\* C3: an iteration over a result whose ComplianceType is not
\* NON_COMPLIANT changes neither remediations nor keys and raises nothing,
\* and every work item has the rule name and resource id of a
\* NON_COMPLIANT result iterated before.
C3_OnlyNonCompliant ==
    [][ /\ (idx' = idx + 1 /\ lastResult'.ComplianceType # "NON_COMPLIANT")
           => (remediations' = remediations /\ keys' = keys /\ err' = NoError)
        /\ \A i \in 1..Len(remediations') :
             \E f \in ncFirst' :
                /\ f[1] = remediations'[i].ConfigRuleName
                /\ f[2] = remediations'[i].ResourceId ]_vars

\* a COMPLIANT result whose prefix has playbooks has been iterated
C3_Witness ==
    /\ idx >= 1
    /\ lastResult.ComplianceType = "COMPLIANT"
    /\ ~Malformed(lastResult)
    /\ Len(Entries(lastResult.ConfigRuleName)) > 0

\* C4 as stated: an iteration over a result that lacks the identifier, the
\* qualifier, ConfigRuleName or ResourceId raises.
C4_MalformedAlwaysRaises ==
    (lastResult # NoResult /\ Malformed(lastResult)) => err # NoError

\* what the iteration over a malformed result raises
MalformedOutcome(r) ==
    IF r.ComplianceType # "NON_COMPLIANT" THEN NoError
    ELSE IF ~r.hasIdentifier \/ ~r.hasQualifier \/ r.ConfigRuleName = None
    THEN "AttributeError"
    ELSE IF Len(Entries(r.ConfigRuleName)) > 0 THEN "TypeError"
    ELSE NoError

\* C4 amended: a NON_COMPLIANT result without identifier, qualifier or
\* ConfigRuleName raises AttributeError; one without ResourceId raises
\* TypeError when its prefix has playbooks and is skipped when it has none;
\* a malformed result that is not NON_COMPLIANT is skipped. No malformed
\* result adds a work item or a key.
C4_MalformedOutcome ==
    [][ (idx' = idx + 1 /\ Malformed(lastResult'))
        => /\ err' = MalformedOutcome(lastResult')
           /\ remediations' = remediations
           /\ keys' = keys ]_vars

\* a NON_COMPLIANT result without qualifier has raised
C4_Witness ==
    /\ lastResult.ComplianceType = "NON_COMPLIANT"
    /\ lastResult.hasIdentifier /\ ~lastResult.hasQualifier
    /\ err = "AttributeError" /\ pc = "raised"

DistinctPlaybookIds(entries) ==
    \A i, j \in 1..Len(entries) :
        i # j => entries[i].PlaybookId # entries[j].PlaybookId

\* C6: the first result of a fresh session, NON_COMPLIANT and well formed,
\* whose prefix maps to n entries with distinct PlaybookIds, leaves exactly
\* n work items, the j-th with the j-th entry's fields and the key
\* prefix + PlaybookId + ResourceId, the keys distinct and all in keys;
\* for n = 0 nothing is added and nothing is raised.
C6_FanOut ==
    ( /\ calls = 1 /\ idx = 1
      /\ lastResult.ComplianceType = "NON_COMPLIANT"
      /\ ~Malformed(lastResult)
      /\ DistinctPlaybookIds(Entries(lastResult.ConfigRuleName)) )
    => LET entries == Entries(lastResult.ConfigRuleName)
       IN /\ err = NoError
          /\ Len(remediations) = Len(entries)
          /\ Cardinality(keys) = Len(entries)
          /\ \A j \in 1..Len(entries) :
                /\ j <= Len(remediations)
                /\ remediations[j].PlaybookId = entries[j].PlaybookId
                /\ remediations[j].LOEHours = entries[j].LOEHours
                /\ remediations[j].LOESprints = entries[j].LOESprints
                /\ remediations[j].SkillLevel = entries[j].SkillLevel
                /\ remediations[j].Rank = entries[j].Rank
                /\ remediations[j].ConfigRuleNamePlaybookIdResourceId =
                     KeyOf(lastResult.ConfigRuleName, entries[j].PlaybookId,
                           lastResult.ResourceId)
                /\ remediations[j].ConfigRuleNamePlaybookIdResourceId \in keys

\* one result fanned out to three playbooks
C6_Witness ==
    /\ calls = 1 /\ idx = 1
    /\ lastResult.ComplianceType = "NON_COMPLIANT"
    /\ ~Malformed(lastResult)
    /\ Len(Entries(lastResult.ConfigRuleName)) = 3
    /\ Len(remediations) = 3

\* C10: for every NON_COMPLIANT result iterated without error and every
\* catalog entry of its prefix there is a work item with that prefix,
\* PlaybookId and ResourceId.
C10_NoTripleLost ==
    \A f \in ncFirst :
        \A j \in 1..Len(Entries(f[1])) :
            \E i \in 1..Len(remediations) :
                /\ remediations[i].ConfigRuleNamePrefix = get_prefix(f[1])
                /\ remediations[i].PlaybookId = Entries(f[1])[j].PlaybookId
                /\ remediations[i].ResourceId = f[2]

\* C1: the keys of the work items put to the remediation table in one
\* invocation are pairwise distinct.
C1_SessionKeysDistinct ==
    \A i, j \in 1..Len(remediationTable) :
        i # j => remediationTable[i].ConfigRuleNamePlaybookIdResourceId
                 # remediationTable[j].ConfigRuleNamePlaybookIdResourceId

\* C9: inside the page loop of get_details a further detail page is
\* requested only after a response that carried a continuation token: a
\* response without one, an empty response included, ends the loop.
C9_NoRequestAfterTokenless ==
    [][ (pc = "page" /\ fetches' = fetches + 1) => HasToken(detail_response) ]_vars

\* C8: after a workload, lens or answers fetch has failed with a caught
\* error, which the handler logged, no exception leaves lambda_handler.
C8_FetchFailureTolerated ==
    Len(logged) > 0 => pc # "raised"

====
